---- MODULE Spec2Model ----
(***************************************************************************)
(* Model of dataloaders/data_utils.py of HAR-SSL: ECDF feature extraction  *)
(* (compute_ecdf_features, compute_batch_ecdf_features), the Normalizer    *)
(* class and the FFT band split components_selection_one_signal.           *)
(*                                                                         *)
(* Numbers.  Sensor values are integers held in a float32 or float64      *)
(* array.  A real is an exact rational <<num, den>> in lowest terms with   *)
(* den > 0.  np.mean adds the samples in the floating type of the array,   *)
(* in numpy's order and rounding every partial sum (see pairwise_sum).     *)
(* The float32 values compute_ecdf_features returns are modelled           *)
(* bit-exactly as dyadic rationals (see Float32), and so is                *)
(* np.around(np.linspace(...)) (see linspace_around).  The frequencies of  *)
(* fftfreq are float64 values computed bit-exactly (see Float64): they are *)
(* compared with the band edges, and a rounded frequency can fall on the   *)
(* other side of an edge than the exact quotient.  The statistics of the   *)
(* Normalizer are kept exact.                                              *)
(***************************************************************************)
EXTENDS Integers, Sequences, FiniteSets, TLC

VARIABLES
    pc,              \* "ready" before the call under study, "done" after it
    dtype,           \* element type of the array argument (window_data or batch_data)
    window_data,     \* compute_ecdf_features: argument, array [window_size, channels]
    n_points,        \* compute_ecdf_features: argument
    ecdf_ret,        \* compute_ecdf_features: outcome (returned array or raised error)
    batch_data,      \* compute_batch_ecdf_features: argument, a sequence of windows
    batch_ret,       \* compute_batch_ecdf_features: outcome
    t_signal,        \* components_selection_one_signal: argument, the time signal
    freq1,           \* components_selection_one_signal: argument, upper edge of the DC band
    freq2,           \* components_selection_one_signal: argument, upper edge of the body band
    sampling_freq,   \* components_selection_one_signal: argument
    decomp_ret,      \* components_selection_one_signal: its three masked spectra and its outcome
    norm_type,       \* Normalizer.norm_type
    attrs,           \* Normalizer: the attributes fit has set (mean, std, max_val, min_val)
    fitted,          \* history: whether a call of fit has completed
    last_call,       \* history: the Normalizer method called last
    df,              \* the dataframe passed to that call
    norm_ret         \* the outcome of that call

extractVars == <<dtype, window_data, n_points, ecdf_ret>>
batchVars == <<batch_data, batch_ret>>
decompVars == <<t_signal, freq1, freq2, sampling_freq, decomp_ret>>
normVars == <<norm_type, attrs, fitted, last_call, df, norm_ret>>
vars == <<pc, extractVars, batchVars, decompVars, normVars>>

-----------------------------------------------------------------------------
(* Bounds of the model *)

MaxT == 16            \* longest window (time steps)
MaxNPoints == 23      \* largest n_points
MaxChannels == 19     \* largest channel count tried (shape[1])
MaxSeed == 1          \* window contents are drawn from seeds 0..MaxSeed
MaxPermT == 4         \* longest window whose time order is permuted exhaustively
MaxPermNPoints == 3   \* largest n_points in the permutation check
MaxBatch == 2         \* largest batch size
MaxBatchT == 2        \* longest window in a batch
MaxSignalLen == 3     \* longest signal decomposed with arbitrary samples
MaxImpulseLen == 10   \* longest unit impulse decomposed
MaxSamplingFreq == 6  \* sampling frequencies are drawn from 1..MaxSamplingFreq
MaxRows == 2          \* most rows of a dataframe

-----------------------------------------------------------------------------
(* Exact arithmetic helpers *)

Abs(x) == IF x < 0 THEN -x ELSE x

RECURSIVE GCD(_, _)
GCD(a, b) == IF b = 0 THEN a ELSE GCD(b, a % b)

\* The rational n/d (d > 0) in lowest terms.
Rat(n, d) ==
    LET g == GCD(Abs(n), d)
    IN  <<n \div g, d \div g>>

RECURSIVE Pow2(_)
Pow2(e) == IF e = 0 THEN 1 ELSE 2 * Pow2(e - 1)

\* 2^q mod d, without forming 2^q.
RECURSIVE Pow2Mod(_, _)
Pow2Mod(q, d) == IF q = 0 THEN 1 % d ELSE (2 * Pow2Mod(q - 1, d)) % d

\* floor(log2(a / b)) for integers a, b > 0: the float64 exponent of a/b.
RECURSIVE FloorLog2(_, _)
FloorLog2(a, b) ==
    IF a < b THEN FloorLog2(2 * a, b) - 1
    ELSE IF a >= 2 * b THEN FloorLog2(a, 2 * b) + 1
    ELSE 0

RECURSIVE SumSeq(_)
SumSeq(s) == IF s = <<>> THEN 0 ELSE Head(s) + SumSeq(Tail(s))

-----------------------------------------------------------------------------
(* numpy primitives used by compute_ecdf_features *)

(***************************************************************************)
(* The float32 nearest to the rational r (round half to even): a 24-bit    *)
(* mantissa M with 2^23 <= M <= 2^24 scaled by a power of two, for         *)
(* 2^-7 <= |r| < 2^30.  Where the code rounds a float64 quotient of two    *)
(* integers (a sum below 2^30 over a window length), the two roundings     *)
(* give the float32 nearest to the exact quotient.                         *)
(***************************************************************************)
Float32(r) ==
    IF r[1] = 0 THEN r
    ELSE LET p == Abs(r[1])
             q == r[2]
             s == 23 - FloorLog2(p, q)
             shift == IF s >= 0 THEN Rat(Pow2(s), q) ELSE Rat(1, q * Pow2(-s))
             num == p * shift[1]
             den == shift[2]
             fl == num \div den
             twice == 2 * (num % den)
             M == IF twice > den \/ (twice = den /\ fl % 2 = 1) THEN fl + 1 ELSE fl
             nearest == IF s >= 0 THEN Rat(M, Pow2(s)) ELSE Rat(M * Pow2(-s), 1)
         IN  IF r[1] < 0 THEN <<-nearest[1], nearest[2]>> ELSE nearest

\* Element types of the arrays passed in.  (An integer array is summed by
\* np.mean as float64.)
DTypes == {"float32", "float64"}

\* Significant bits of the floating type np.mean accumulates in: the array's own.
mantissa_bits(dt) == IF dt = "float32" THEN 24 ELSE 53

\* x + y in the floating type: the integer sum rounded to the significant bits
\* of the type, halves to even.
float_add(x, y, dt) ==
    LET sum == x + y
        a == Abs(sum)
        width == IF a = 0 THEN 0 ELSE FloorLog2(a, 1) + 1
        unit == Pow2(width - mantissa_bits(dt))
        fl == a \div unit
        twice == 2 * (a % unit)
        M == IF twice > unit \/ (twice = unit /\ fl % 2 = 1) THEN fl + 1 ELSE fl
    IN  IF width <= mantissa_bits(dt) THEN sum
        ELSE IF sum < 0 THEN -(M * unit) ELSE M * unit

\* res += a[i] for i = first, first + stride, ... up to last (indices from 1).
RECURSIVE AccumulateStrided(_, _, _, _, _, _)
AccumulateStrided(res, a, first, stride, last, dt) ==
    IF first > last THEN res
    ELSE AccumulateStrided(float_add(res, a[first], dt), a, first + stride, stride, last, dt)

(***************************************************************************)
(* The sum np.add.reduce forms for np.mean: numpy's pairwise_sum.  Fewer   *)
(* than 8 elements are added left to right from 0.  Up to 128 elements are *)
(* added into 8 accumulators, r[j] taking a[j], a[j+8], ..., which are     *)
(* combined as ((r0+r1)+(r2+r3))+((r4+r5)+(r6+r7)) before the elements     *)
(* past the last whole block of 8 are added one by one.  A longer array is *)
(* split near the middle at a multiple of 8 and the sums of the two parts  *)
(* are added.                                                              *)
(***************************************************************************)
RECURSIVE pairwise_sum(_, _)
pairwise_sum(a, dt) ==
    LET n == Len(a)
    IN  IF n < 8 THEN AccumulateStrided(0, a, 1, 1, n, dt)
        ELSE IF n <= 128 THEN
            LET blocks_end == n - (n % 8)
                r == [j \in 1..8 |-> AccumulateStrided(a[j], a, j + 8, 8, blocks_end, dt)]
                res == float_add(float_add(float_add(r[1], r[2], dt),
                                           float_add(r[3], r[4], dt), dt),
                                 float_add(float_add(r[5], r[6], dt),
                                           float_add(r[7], r[8], dt), dt), dt)
            IN  AccumulateStrided(res, a, blocks_end + 1, 1, n, dt)
        ELSE
            LET half == n \div 2
                n2 == half - (half % 8)
            IN  float_add(pairwise_sum(SubSeq(a, 1, n2), dt),
                          pairwise_sum(SubSeq(a, n2 + 1, n), dt), dt)

\* np.mean of a 1-D array: the sum accumulated in the array's floating type,
\* divided by the length; the mean of a float32 array is a float32.
np_mean(channel_data, dt) ==
    LET ret == pairwise_sum(channel_data, dt)
        quotient == Rat(ret, Len(channel_data))
    IN  IF dt = "float32" THEN Float32(quotient) ELSE quotient

\* np.sort of a 1-D array: ascending order (insertion sort).
RECURSIVE InsertSorted(_, _)
InsertSorted(x, s) ==
    IF s = <<>> THEN <<x>>
    ELSE IF x <= Head(s) THEN <<x>> \o s
    ELSE <<Head(s)>> \o InsertSorted(x, Tail(s))

\* Faulty variant: the data is used in time order, unsorted.
np_sort_unsorted(s) == s

RECURSIVE np_sort(_)
np_sort(s) == IF s = <<>> THEN <<>> ELSE InsertSorted(Head(s), np_sort(Tail(s)))

(***************************************************************************)
(* np.around(np.linspace(0, D, num=num)).astype(int)[k], in float64.       *)
(* linspace computes step = fl(D / div) with div = num - 1, then           *)
(* y[k] = fl(k * step), overwrites y[num-1] with D, and (num = 1) returns  *)
(* [0.0]; np.around rounds half to even.                                   *)
(*   When x = k*D/div is no half-integer, y[k] is within 2^-40 of x and    *)
(* rounds to the integer nearest x.  When x = m + 1/2, the sign of         *)
(* y[k] - x decides.  With E the exponent of D/div and q = 52 - E,         *)
(* step = M * 2^-q where M is D*2^q/div rounded to an integer, so          *)
(* step - D/div = (e/div) * 2^-q with e = -r or div - r for                *)
(* r = D*2^q mod div.  Then k*step = x + (k*e/div) * 2^-q exactly, and in  *)
(* units of ulp(x) = 2^(Ex-52) the offset is z = k*e / (div * 2^(Ex-E)),   *)
(* |z| < 1.  x has an even mantissa, so fl(k*step) leaves x only when      *)
(* |z| > 1/2 (below x = 1/2, a power of two, the spacing halves: |z| >     *)
(* 1/4).                                                                   *)
(***************************************************************************)
linspace_around(k, D, num) ==
    IF num = 1 \/ D = 0 THEN 0
    ELSE IF k = num - 1 THEN D
    ELSE
      LET div == num - 1
          twice == (2 * k * D) \div div            \* 2x when x is a half-integer
          tie == (2 * k * D) % div = 0 /\ twice % 2 = 1
          m == (k * D) \div div
          E == FloorLog2(D, div)
          r == (D * Pow2Mod(52 - E, div)) % div
          e == IF 2 * r < div THEN -r ELSE div - r
          g == FloorLog2(2 * m + 1, 2) - E
          above == e > 0 /\ 2 * k * e > div * Pow2(g)
          below == e < 0 /\ (IF m = 0 THEN 4 ELSE 2) * k * (-e) > div * Pow2(g)
      IN  IF ~tie THEN (2 * k * D + div) \div (2 * div)
          ELSE IF above THEN m + 1
          ELSE IF below THEN m
          ELSE IF m % 2 = 0 THEN m ELSE m + 1

-----------------------------------------------------------------------------
(* compute_ecdf_features *)

\* window_data.shape[1]
Channels(w) == Len(w[1])

\* window_data[:, channel_idx] (channel_idx counted from 0)
ColumnOf(w, channel_idx) == [t \in 1..Len(w) |-> w[t][channel_idx + 1]]

\* Faulty variant: list(range(0, 9)), the first nine channels.
acc_indices_first_nine == [j \in 1..9 |-> j - 1]

\* list(range(0, 18, 2))
acc_indices == [j \in 1..9 |-> 2 * (j - 1)]

\* window_data[:, acc_indices]
SelectColumns(w, idx) == [t \in 1..Len(w) |-> [j \in 1..Len(idx) |-> w[t][idx[j] + 1]]]

axes_indices == << <<0, 3, 6>>, <<1, 4, 7>>, <<2, 5, 8>> >>

\* np.zeros((rows, cols))
np_zeros(rows, cols) == [a \in 1..rows |-> [j \in 1..cols |-> Rat(0, 1)]]

\* Faulty variant: linspace(..., endpoint=False), which never samples the last value.
EcdfPointsNoEndpoint(sorted_data, n) ==
    [k \in 1..n |-> sorted_data[((k - 1) * (Len(sorted_data) - 1)) \div n + 1]]

\* sorted_data[indices] for indices = around(linspace(0, len(sorted_data) - 1, num=n))
EcdfPoints(sorted_data, n) ==
    [k \in 1..n |-> sorted_data[linspace_around(k - 1, Len(sorted_data) - 1, n) + 1]]

\* Faulty variant: start_idx = i * n_points, so a segment overwrites the previous mean.
StoreChannelPacked(features, w, dt, axis_idx, i, n) ==
    LET channel_data == ColumnOf(w, axes_indices[axis_idx + 1][i + 1])
        ecdf_points == EcdfPoints(np_sort(channel_data), n)
        start_idx == i * n
    IN  [features EXCEPT ![axis_idx + 1] =
            [j \in DOMAIN @ |->
                IF start_idx <= j - 1 /\ j - 1 < start_idx + n
                    THEN Rat(ecdf_points[j - start_idx], 1)
                ELSE IF j - 1 = start_idx + n THEN np_mean(channel_data, dt)
                ELSE @[j]]]

\* Body of the inner loop: the features of one channel written into its row.
StoreChannel(features, w, dt, axis_idx, i, n) ==
    LET channel_idx == axes_indices[axis_idx + 1][i + 1]
        channel_data == ColumnOf(w, channel_idx)
        mean_value == np_mean(channel_data, dt)
        sorted_data == np_sort(channel_data)
        ecdf_points == EcdfPoints(sorted_data, n)
        start_idx == i * (n + 1)
    IN  [features EXCEPT ![axis_idx + 1] =
            [j \in DOMAIN @ |->
                IF start_idx <= j - 1 /\ j - 1 < start_idx + n
                    THEN Rat(ecdf_points[j - start_idx], 1)
                ELSE IF j - 1 = start_idx + n THEN mean_value
                ELSE @[j]]]

\* The two nested loops, iteration `step` onwards (step = 3 * axis_idx + i).
RECURSIVE EcdfLoop(_, _, _, _, _)
EcdfLoop(features, w, dt, n, step) ==
    IF step = 9 THEN features
    ELSE EcdfLoop(StoreChannel(features, w, dt, step \div 3, step % 3, n), w, dt, n, step + 1)

\* ecdf_features.astype(np.float32)
astype_float32(features) ==
    [a \in DOMAIN features |-> [j \in DOMAIN features[a] |-> Float32(features[a][j])]]

Raised(error) == [status |-> error, value |-> <<>>]
Returned(v) == [status |-> "ok", value |-> v]
NotCalled == [status |-> "not called", value |-> <<>>]

\* Faulty variant: the channel test written with "or", which rejects every window.
compute_ecdf_features_or(w, dt, n) ==
    LET channels == Channels(w)
        acc == IF channels = 18 THEN SelectColumns(w, acc_indices) ELSE w
    IN  IF channels # 9 \/ channels # 18 THEN Raised("ValueError")
        ELSE Returned(astype_float32(EcdfLoop(np_zeros(3, (n + 1) * 3), acc, dt, n, 0)))

compute_ecdf_features(w, dt, n) ==
    LET channels == Channels(w)
        acc == IF channels = 18 THEN SelectColumns(w, acc_indices) ELSE w
    IN  IF channels # 9 /\ channels # 18 THEN Raised("ValueError")
        ELSE Returned(astype_float32(EcdfLoop(np_zeros(3, (n + 1) * 3), acc, dt, n, 0)))

-----------------------------------------------------------------------------
(* compute_batch_ecdf_features *)

\* Faulty variant: the blocks are stored in reverse order.
RECURSIVE BatchLoopReversed(_, _, _, _)
BatchLoopReversed(features, batch, dt, i) ==
    IF i > Len(batch) THEN Returned(features)
    ELSE LET r == compute_ecdf_features(batch[Len(batch) + 1 - i], dt, 25)
         IN  IF r.status # "ok" THEN r
             ELSE BatchLoopReversed([features EXCEPT ![i] = r.value], batch, dt, i + 1)

compute_batch_ecdf_features_reversed(batch, dt) ==
    BatchLoopReversed([i \in 1..Len(batch) |-> np_zeros(3, 78)], batch, dt, 1)

\* for i in range(batch_size): features[i] = compute_ecdf_features(batch_data[i]),
\* with n_points left at its default (25).  An exception of the call propagates;
\* the assignment needs a block of the shape (3, 78) of features[i].
RECURSIVE BatchLoop(_, _, _, _)
BatchLoop(features, batch, dt, i) ==
    IF i > Len(batch) THEN Returned(features)
    ELSE LET r == compute_ecdf_features(batch[i], dt, 25)
         IN  IF r.status # "ok" THEN r
             ELSE IF Len(r.value) # 3 \/ \E a \in 1..3 : Len(r.value[a]) # 78
                 THEN Raised("ValueError")
             ELSE BatchLoop([features EXCEPT ![i] = r.value], batch, dt, i + 1)

compute_batch_ecdf_features(batch, dt) ==
    BatchLoop([i \in 1..Len(batch) |-> np_zeros(3, 78)], batch, dt, 1)

-----------------------------------------------------------------------------
(* components_selection_one_signal *)

(***************************************************************************)
(* A complex spectrum value is kept exactly as an integer combination of   *)
(* the N-th roots of unity: the sequence c of length N stands for          *)
(* sum_j c[j+1] * w^j with w = exp(-2*pi*i/N).  The representation is not  *)
(* unique (the roots are linearly dependent); nothing below compares two   *)
(* spectrum values for numeric equality.                                   *)
(***************************************************************************)

\* scipy.fftpack.fft: X[k] = sum_n x[n] * w^(k*n), k = 0..N-1.
fft(x) ==
    LET N == Len(x)
    IN  [k1 \in 1..N |->
            [j1 \in 1..N |->
                SumSeq([n1 \in 1..N |->
                    IF ((k1 - 1) * (n1 - 1)) % N = j1 - 1 THEN x[n1] ELSE 0])]]

(***************************************************************************)
(* float64 arithmetic.  A natural number below 2^80 is kept as four limbs  *)
(* of 20 bits, least significant first.  A float64 is                      *)
(*     [sign |-> -1, 0 or 1, mant |-> limbs, exp |-> e],                   *)
(* standing for sign * mant * 2^exp with 2^52 <= mant < 2^53 (a normal     *)
(* number), or Float64Zero.  The values met here are far from the          *)
(* overflow and subnormal ranges.                                          *)
(***************************************************************************)
LimbBase == 1048576

\* The limbs of an integer 0 <= n < 2^31.
BigOf(n) == <<n % LimbBase, (n \div LimbBase) % LimbBase, (n \div LimbBase) \div LimbBase, 0>>

\* The limbs of w[1] + w[2] * 2^20 + w[3] * 2^40 + w[4] * 2^60 for words w[i]
\* that may exceed a limb or be negative: carries and borrows are passed up.
BigCarry3(l1, l2, w3, w4) == <<l1, l2, w3 % LimbBase, (w4 + (w3 \div LimbBase)) % LimbBase>>
BigCarry2(l1, w2, w3, w4) == BigCarry3(l1, w2 % LimbBase, w3 + (w2 \div LimbBase), w4)
BigCarry(w) == BigCarry2(w[1] % LimbBase, w[2] + (w[1] \div LimbBase), w[3], w[4])

\* a * s for a factor 0 <= s < 2^10.
BigMulSmall(a, s) == BigCarry(<<a[1] * s, a[2] * s, a[3] * s, a[4] * s>>)

\* a + s for an addend 0 <= s < 2^10.
BigAddSmall(a, s) == BigCarry(<<a[1] + s, a[2], a[3], a[4]>>)

\* a - b for a >= b.
BigSub(a, b) == BigCarry(<<a[1] - b[1], a[2] - b[2], a[3] - b[3], a[4] - b[4]>>)

\* -1, 0 or 1 as a < b, a = b or a > b.
BigCmp(a, b) ==
    IF a[4] # b[4] THEN (IF a[4] < b[4] THEN -1 ELSE 1)
    ELSE IF a[3] # b[3] THEN (IF a[3] < b[3] THEN -1 ELSE 1)
    ELSE IF a[2] # b[2] THEN (IF a[2] < b[2] THEN -1 ELSE 1)
    ELSE IF a[1] # b[1] THEN (IF a[1] < b[1] THEN -1 ELSE 1)
    ELSE 0

\* (p / q) * 2^e rewritten with q <= p < 2q (in steps of 2^8 while far off);
\* r is <<p, q, e>>.
RECURSIVE Float64Scale(_)
Float64Scale(r) ==
    IF BigCmp(BigMulSmall(r[1], 256), r[2]) <= 0
        THEN Float64Scale(<<BigMulSmall(r[1], 256), r[2], r[3] - 8>>)
    ELSE IF BigCmp(r[1], BigMulSmall(r[2], 256)) >= 0
        THEN Float64Scale(<<r[1], BigMulSmall(r[2], 256), r[3] + 8>>)
    ELSE IF BigCmp(r[1], r[2]) < 0
        THEN Float64Scale(<<BigMulSmall(r[1], 2), r[2], r[3] - 1>>)
    ELSE IF BigCmp(r[1], BigMulSmall(r[2], 2)) >= 0
        THEN Float64Scale(<<r[1], BigMulSmall(r[2], 2), r[3] + 1>>)
    ELSE r

\* digit + bit if q * (digit + bit) <= r, else digit.
BigDigitBit(r, q, digit, bit) ==
    IF BigCmp(r, BigMulSmall(q, digit + bit)) >= 0 THEN digit + bit ELSE digit

\* The largest digit in 0..15 with q * digit <= r, for r < 16 * q.
BigDigit(r, q) ==
    BigDigitBit(r, q, BigDigitBit(r, q, BigDigitBit(r, q, BigDigitBit(r, q, 0, 8), 4), 2), 1)

\* One step of the long division: the quotient M extended by the digit, and
\* the remainder left of r16 = 16 * (the remainder before).
Float64DigitStep(M, r16, q, digit) ==
    <<BigAddSmall(BigMulSmall(M, 16), digit), BigSub(r16, BigMulSmall(q, digit))>>

Float64NextDigit(M, r16, q) == Float64DigitStep(M, r16, q, BigDigit(r16, q))

\* Long division, four bits a step: n more steps from st = <<M, rem>>, the
\* quotient and the remainder rem < q reached so far.  Once the remainder is 0
\* the digits left are all 0.
RECURSIVE Float64Digits(_, _, _)
Float64Digits(st, q, n) ==
    IF n = 0 THEN st
    ELSE IF st[2] = <<0, 0, 0, 0>>
        THEN Float64Digits(<<BigMulSmall(st[1], 16), st[2]>>, q, n - 1)
    ELSE Float64Digits(Float64NextDigit(st[1], BigMulSmall(st[2], 16), q), q, n - 1)

Float64Zero == [sign |-> 0, mant |-> <<0, 0, 0, 0>>, exp |-> 0]

\* sign * rounded * 2^e for 2^52 <= rounded <= 2^53; 2^53 is renormalised.
Float64Pack(sign, rounded, e) ==
    IF rounded = <<0, 0, 8192, 0>>
        THEN [sign |-> sign, mant |-> <<0, 0, 4096, 0>>, exp |-> e + 1]
    ELSE [sign |-> sign, mant |-> rounded, exp |-> e]

\* M rounded by the remainder: up when 2 * rem > q, or when 2 * rem = q and M is odd.
Float64RoundHalfEven(M, half) ==
    IF half > 0 \/ (half = 0 /\ M[1] % 2 = 1) THEN BigAddSmall(M, 1) ELSE M

\* The float64 from the 53-bit quotient and the remainder of p / q, q <= p < 2q.
Float64Rounded(sign, q, e, digits) ==
    Float64Pack(sign,
                Float64RoundHalfEven(digits[1], BigCmp(BigMulSmall(digits[2], 2), q)),
                e - 52)

Float64FromScaled(sign, scaled) ==
    Float64Rounded(sign, scaled[2], scaled[3],
                   Float64Digits(<<BigOf(1), BigSub(scaled[1], scaled[2])>>, scaled[2], 13))

\* The float64 nearest to sign * (p / q) * 2^e for naturals p and q > 0: 53
\* significant bits, round half to even.
Float64(sign, p, q, e) ==
    IF sign = 0 \/ p = <<0, 0, 0, 0>> THEN Float64Zero
    ELSE Float64FromScaled(sign, Float64Scale(<<p, q, e>>))

\* 1.0 / x for a float64 x # 0.
Float64Reciprocal(x) == Float64(x.sign, BigOf(1), x.mant, -x.exp)

\* x * n for a float64 x and an integer |n| < 2^10.
Float64TimesInt(x, n) ==
    Float64(IF n < 0 THEN -x.sign ELSE IF n > 0 THEN x.sign ELSE 0,
            BigMulSmall(x.mant, Abs(n)), BigOf(1), x.exp)

\* The float64 a decimal literal num/den denotes (0.001 is 1/1000, 25.0 is
\* 25/1), or float(num) for an integer (den = 1); |num|, den < 2^20.
float64_literal(num, den) ==
    Float64(IF num < 0 THEN -1 ELSE IF num > 0 THEN 1 ELSE 0, BigOf(Abs(num)), BigOf(den), 0)

\* -1, 0 or 1 as abs(x) < abs(y), abs(x) = abs(y) or abs(x) > abs(y).
Float64CmpAbs(x, y) ==
    IF x.sign = 0 \/ y.sign = 0
        THEN (IF x.sign # 0 THEN 1 ELSE IF y.sign # 0 THEN -1 ELSE 0)
    ELSE IF x.exp # y.exp THEN (IF x.exp < y.exp THEN -1 ELSE 1)
    ELSE BigCmp(x.mant, y.mant)

\* -1, 0 or 1 as x < y, x = y or x > y.
Float64Cmp(x, y) ==
    IF x.sign # y.sign THEN (IF x.sign < y.sign THEN -1 ELSE 1)
    ELSE x.sign * Float64CmpAbs(x, y)

\* abs(x)
Float64Abs(x) == [x EXCEPT !.sign = Abs(@)]

\* The integer bin number of position k (from 0) in fftfreq's layout:
\* 0, 1, ..., (N-1)//2, -(N//2), ..., -1.
BinNumber(k, N) == IF k <= (N - 1) \div 2 THEN k ELSE k - N

(***************************************************************************)
(* scipy.fftpack.fftfreq(N, d=1/float(sampling_freq)), which is numpy's:   *)
(*     val = 1.0 / (n * d);  return results * val                          *)
(* with results the integer bin numbers.  Each of the four operations      *)
(* (1/float(sampling_freq), n * d, 1.0 / (n * d), bin * val) rounds to     *)
(* float64, so that a frequency need not be the float nearest to           *)
(* bin * sampling_freq / N: fftfreq(10, 6)[5] is -3.0000000000000004.      *)
(***************************************************************************)
fftfreq_results(N, val) == [k1 \in 1..N |-> Float64TimesInt(val, BinNumber(k1 - 1, N))]

fftfreq_val(N, d) == Float64Reciprocal(Float64TimesInt(d, N))

fftfreq(N, fs) == fftfreq_results(N, fftfreq_val(N, Float64Reciprocal(float64_literal(fs, 1))))

\* fftfreq for the lengths and sampling frequencies of the model's inputs,
\* each array computed once.
fftfreq_arrays ==
    [N \in 1..MaxImpulseLen |->
        [fs \in 1..MaxSamplingFreq |-> fftfreq(N, fs) \o <<>>] \o <<>>] \o <<>>

\* abs(freq) > edge and abs(freq) <= edge, for float64 freq and edge.
AbsGreater(freq, edge) == Float64Cmp(Float64Abs(freq), edge) > 0
AbsAtMost(freq, edge) == Float64Cmp(Float64Abs(freq), edge) <= 0

\* float(0), the entry appended for a bin a mask leaves out.
Float0 == <<>>

\* np.array(f_X_signal): the list as a complex array, float(0) become 0+0j.
AsComplexArray(f, N) == [k1 \in 1..N |-> IF f[k1] = Float0 THEN [j1 \in 1..N |-> 0] ELSE f[k1]]

(***************************************************************************)
(* ifft(F).real.  x[n] = (1/N) sum_k F[k] * w^(-k*n); multiplying by       *)
(* w^(-k*n) shifts the coefficients, and the real part of w^j is           *)
(* cos(2*pi*j/N).  Sample n is returned as [scale |-> N, cos |-> d],       *)
(* standing for (1/N) * sum_j d[j+1] * cos(2*pi*j/N).                      *)
(***************************************************************************)
ifft_real(F) ==
    LET N == Len(F)
    IN  [n1 \in 1..N |->
            [scale |-> N,
             cos |-> [j1 \in 1..N |->
                        SumSeq([k1 \in 1..N |->
                            F[k1][(((j1 - 1) + (k1 - 1) * (n1 - 1)) % N) + 1]])]]]

\* Faulty variant: the body test uses "<" for freq1, so a bin at exactly freq1
\* is kept by the DC mask and by the body mask.
BodyMaskedOutInclusive(freq, f1, f2) ==
    Float64Cmp(Float64Abs(freq), f1) < 0 \/ AbsGreater(freq, f2)

\* The three tests of the loop body: whether the bin is left out of the mask.
DCMaskedOut(freq, f1) == AbsGreater(freq, f1)
NoiseMaskedOut(freq, f2) == AbsAtMost(freq, f2)
BodyMaskedOut(freq, f1, f2) == AbsAtMost(freq, f1) \/ AbsGreater(freq, f2)

components_selection_one_signal(signal, f1, f2, fs) ==
    LET t_signal_length == Len(signal)
        f_signal == fft(signal)
        freqs == IF t_signal_length \in 1..MaxImpulseLen /\ fs \in 1..MaxSamplingFreq
                 THEN fftfreq_arrays[t_signal_length][fs]
                 ELSE fftfreq(t_signal_length, fs)
        f_DC_signal == [i \in 1..t_signal_length |->
            IF DCMaskedOut(freqs[i], f1) THEN Float0 ELSE f_signal[i]]
        f_noise_signal == [i \in 1..t_signal_length |->
            IF NoiseMaskedOut(freqs[i], f2) THEN Float0 ELSE f_signal[i]]
        f_body_signal == [i \in 1..t_signal_length |->
            IF BodyMaskedOut(freqs[i], f1, f2) THEN Float0 ELSE f_signal[i]]
        t_DC_component == ifft_real(AsComplexArray(f_DC_signal, t_signal_length))
        t_body_component == ifft_real(AsComplexArray(f_body_signal, t_signal_length))
    IN  [status |-> "ok",
         value |-> <<t_DC_component, t_body_component>>,
         f_DC_signal |-> f_DC_signal,
         f_body_signal |-> f_body_signal,
         f_noise_signal |-> f_noise_signal]

DecompNotCalled ==
    [status |-> "not called", value |-> <<>>,
     f_DC_signal |-> <<>>, f_body_signal |-> <<>>, f_noise_signal |-> <<>>]

-----------------------------------------------------------------------------
(* Normalizer *)

(***************************************************************************)
(* A dataframe is [index |-> row labels, rows |-> rows of integers].  A    *)
(* cell of a normalized frame is a real                                    *)
(*     num / (sqrt(den_var) + den_add + (eps if has_eps))                  *)
(* with num, den_var, den_add exact rationals and eps = np.finfo(float).eps*)
(* kept symbolic (it is positive), or NaN.  Every real with num = 0 is     *)
(* the one value Zero.                                                     *)
(***************************************************************************)

RatSub(a, b) == Rat(a[1] * b[2] - b[1] * a[2], a[2] * b[2])

NaN == [kind |-> "nan", num |-> <<0, 1>>, den_var |-> <<0, 1>>, den_add |-> <<0, 1>>,
        has_eps |-> FALSE]
Zero == [kind |-> "real", num |-> <<0, 1>>, den_var |-> <<0, 1>>, den_add |-> <<1, 1>>,
         has_eps |-> FALSE]

\* num / (sqrt(den_var) + den_add [+ eps]); 0/0 is NaN.  A nonzero numerator over
\* a zero denominator does not occur: a zero spread makes every numerator zero.
Divide(num, den_var, den_add, has_eps) ==
    IF ~has_eps /\ den_var[1] = 0 /\ den_add[1] = 0 THEN NaN
    ELSE IF num[1] = 0 THEN Zero
    ELSE [kind |-> "real", num |-> num, den_var |-> den_var, den_add |-> den_add,
          has_eps |-> has_eps]

NumRows(d) == Len(d.rows)
ColumnSet(d) == 1..Len(d.rows[1])
ColumnValues(d, c, rowset) == [r \in rowset |-> d.rows[r][c]]

SumOver(f) == SumSeq([j \in 1..Cardinality(DOMAIN f) |->
                  f[CHOOSE r \in DOMAIN f : Cardinality({q \in DOMAIN f : q < r}) = j - 1]])

\* mean of the values f (a function on a set of rows)
MeanOf(f) == Rat(SumOver(f), Cardinality(DOMAIN f))

\* pandas std (ddof = 1) is the square root of this variance; it is NaN for a
\* single value (0/0).
VarOf(f) ==
    LET n == Cardinality(DOMAIN f)
        sq == SumOver([r \in DOMAIN f |-> f[r] * f[r]])
        sm == SumOver(f)
    IN  IF n = 1 THEN [nan |-> TRUE, var |-> <<0, 1>>]
        ELSE [nan |-> FALSE, var |-> Rat(n * sq - sm * sm, n * (n - 1))]

MinOver(f) == CHOOSE x \in {f[r] : r \in DOMAIN f} : \A r \in DOMAIN f : x <= f[r]
MaxOver(f) == CHOOSE x \in {f[r] : r \in DOMAIN f} : \A r \in DOMAIN f : x >= f[r]

AllRows(d) == 1..NumRows(d)

\* df.groupby(by=df.index): the rows that carry the label of row r
GroupOf(d, r) == {q \in AllRows(d) : d.index[q] = d.index[r]}

SetAttr(at, name, v) == [a \in DOMAIN at \cup {name} |-> IF a = name THEN v ELSE at[a]]

NormTypes == {"standardization", "minmax", "per_sample_std", "per_sample_minmax"}

\* Faulty variant: no final else branch, an unknown norm_type falls through.
Normalizer_fit_no_else(nt, at, d) ==
    IF nt = "standardization" THEN
        [status |-> "ok",
         attrs |-> SetAttr(SetAttr(at, "mean", [c \in ColumnSet(d) |-> MeanOf(ColumnValues(d, c, AllRows(d)))]),
                           "std", [c \in ColumnSet(d) |-> VarOf(ColumnValues(d, c, AllRows(d)))])]
    ELSE [status |-> "ok", attrs |-> at]

\* Normalizer.fit: the outcome and the attributes of self afterwards.
Normalizer_fit(nt, at, d) ==
    IF nt = "standardization" THEN
        [status |-> "ok",
         attrs |-> SetAttr(SetAttr(at, "mean", [c \in ColumnSet(d) |-> MeanOf(ColumnValues(d, c, AllRows(d)))]),
                           "std", [c \in ColumnSet(d) |-> VarOf(ColumnValues(d, c, AllRows(d)))])]
    ELSE IF nt = "minmax" THEN
        [status |-> "ok",
         attrs |-> SetAttr(SetAttr(at, "max_val", [c \in ColumnSet(d) |-> MaxOver(ColumnValues(d, c, AllRows(d)))]),
                           "min_val", [c \in ColumnSet(d) |-> MinOver(ColumnValues(d, c, AllRows(d)))])]
    ELSE IF nt = "per_sample_std" \/ nt = "per_sample_minmax" THEN
        [status |-> "ok", attrs |-> SetAttr(SetAttr(at, "max_val", "None"), "min_val", "None")]
    ELSE [status |-> "NameError", attrs |-> at]

\* (df - self.mean) / (self.std + eps)
Standardized(at, d) ==
    [r \in AllRows(d) |-> [c \in ColumnSet(d) |->
        IF at["std"][c].nan THEN NaN
        ELSE Divide(RatSub(Rat(d.rows[r][c], 1), at["mean"][c]), at["std"][c].var, <<0, 1>>, TRUE)]]

\* (df - self.min_val) / (self.max_val - self.min_val + eps)
MinMaxed(at, d) ==
    [r \in AllRows(d) |-> [c \in ColumnSet(d) |->
        Divide(Rat(d.rows[r][c] - at["min_val"][c], 1),
               <<0, 1>>, Rat(at["max_val"][c] - at["min_val"][c], 1), TRUE)]]

\* (df - grouped.transform('mean')) / grouped.transform('std')
PerSampleStandardized(d) ==
    [r \in AllRows(d) |-> [c \in ColumnSet(d) |->
        LET vals == ColumnValues(d, c, GroupOf(d, r))
        IN  IF VarOf(vals).nan THEN NaN
            ELSE Divide(RatSub(Rat(d.rows[r][c], 1), MeanOf(vals)), VarOf(vals).var, <<0, 1>>, FALSE)]]

\* (df - min_vals) / (grouped.transform('max') - min_vals + eps)
PerSampleMinMaxed(d) ==
    [r \in AllRows(d) |-> [c \in ColumnSet(d) |->
        LET vals == ColumnValues(d, c, GroupOf(d, r))
        IN  Divide(Rat(d.rows[r][c] - MinOver(vals), 1),
                   <<0, 1>>, Rat(MaxOver(vals) - MinOver(vals), 1), TRUE)]]

\* The statistics a Normalizer would hold by default: mean 0 and std 1, min 0 and max 1.
DefaultStats(d) ==
    [mean |-> [c \in ColumnSet(d) |-> <<0, 1>>],
     std |-> [c \in ColumnSet(d) |-> [nan |-> FALSE, var |-> <<1, 1>>]],
     min_val |-> [c \in ColumnSet(d) |-> 0],
     max_val |-> [c \in ColumnSet(d) |-> 1]]

\* Faulty variant: missing statistics default to mean 0 and std 1 (min 0, max 1)
\* instead of raising.
Normalizer_normalize_defaults(nt, at, d) ==
    IF nt = "standardization" THEN
        IF "mean" \notin DOMAIN at
            THEN Returned(Standardized(DefaultStats(d), d))
            ELSE Returned(Standardized(at, d))
    ELSE IF nt = "minmax" THEN
        IF "min_val" \notin DOMAIN at
            THEN Returned(MinMaxed(DefaultStats(d), d))
            ELSE Returned(MinMaxed(at, d))
    ELSE IF nt = "per_sample_std" THEN Returned(PerSampleStandardized(d))
    ELSE IF nt = "per_sample_minmax" THEN Returned(PerSampleMinMaxed(d))
    ELSE Raised("NameError")

\* Normalizer.normalize.  Reading an attribute that fit has not set raises
\* AttributeError.
Normalizer_normalize(nt, at, d) ==
    IF nt = "standardization" THEN
        IF "mean" \notin DOMAIN at \/ "std" \notin DOMAIN at THEN Raised("AttributeError")
        ELSE Returned(Standardized(at, d))
    ELSE IF nt = "minmax" THEN
        IF "min_val" \notin DOMAIN at \/ "max_val" \notin DOMAIN at THEN Raised("AttributeError")
        ELSE Returned(MinMaxed(at, d))
    ELSE IF nt = "per_sample_std" THEN Returned(PerSampleStandardized(d))
    ELSE IF nt = "per_sample_minmax" THEN Returned(PerSampleMinMaxed(d))
    ELSE Raised("NameError")

-----------------------------------------------------------------------------
(* Inputs *)

\* Sensor reading at time step t (from 1) of channel c (from 1): small integers
\* with repeats, unsorted in time and different from channel to channel.
Reading(t, c, seed) == ((t * (c + seed + 1) + c * c + seed) % 7) - 3

Window(T, C, seed) == [t \in 1..T |-> [c \in 1..C |-> Reading(t, c, seed)]]

\* The same readings with the extreme ones at +-2^24, the magnitude from which
\* a float32 no longer holds every integer (2^24 + 1 is not a float32).
LargeReading(t, c, seed) ==
    LET r == Reading(t, c, seed)
    IN  IF r = 3 THEN Pow2(24) ELSE IF r = -3 THEN -Pow2(24) ELSE r

LargeWindow(T, C, seed) == [t \in 1..T |-> [c \in 1..C |-> LargeReading(t, c, seed)]]

\* Batches: arrays [N, T, C], every window of the same shape.
Batches ==
    UNION {{[i \in 1..N |-> Window(T, C, seeds[i])] : seeds \in [1..N -> 0..MaxSeed]} :
              N \in 0..MaxBatch, T \in 1..MaxBatchT, C \in 1..MaxChannels}

Signals ==
    (UNION {[1..N -> {-1, 0, 1}] : N \in 1..MaxSignalLen})
    \cup (UNION {{[i \in 1..N |-> IF i = p THEN 1 ELSE 0] : p \in 1..N} :
                     N \in 1..MaxImpulseLen})

\* Band edges, as float64: the decimal literals -1, 0, 0.001, 1 and 25.0 and
\* the Nyquist frequency of the largest sampling frequency, which the bin
\* -N/2 of an even length N lies on or, after rounding, just beyond.
BandEdgeLiterals == {<<-1, 1>>, <<0, 1>>, <<1, 1000>>, <<1, 1>>, <<MaxSamplingFreq, 2>>, <<25, 1>>}
BandEdges == {float64_literal(r[1], r[2]) : r \in BandEdgeLiterals}

\* Dataframes of two columns, the first holding one value in every row, the
\* second any values; the index is a RangeIndex (every row its own sample) or
\* one label on every row (one sample).
DataFrames ==
    UNION {{[index |-> ix, rows |-> [r \in 1..n |-> <<c, col[r]>>]] :
               ix \in {[r \in 1..n |-> r - 1], [r \in 1..n |-> 0]},
               c \in {0, 2},
               col \in [1..n -> {0, 2}]} : n \in 1..MaxRows}

\* norm_type strings passed to the constructor; the last two name no method.
NormTypeArgs == NormTypes \cup {"zscore", ""}

-----------------------------------------------------------------------------
(* Specifications: one call of each function *)

ExtractIdle == window_data = <<>> /\ n_points = 0 /\ ecdf_ret = NotCalled
BatchIdle == batch_data = <<>> /\ batch_ret = NotCalled
DecompIdle ==
    /\ t_signal = <<>> /\ freq1 = Float64Zero /\ freq2 = Float64Zero /\ sampling_freq = 0
    /\ decomp_ret = DecompNotCalled
NoFrame == [index |-> <<>>, rows |-> <<>>]
NormIdle ==
    /\ norm_type = "" /\ attrs = <<>> /\ fitted = FALSE /\ last_call = "none"
    /\ df = NoFrame /\ norm_ret = NotCalled

Init ==
    /\ pc = "ready"
    /\ dtype \in DTypes
    /\ \E T \in 1..MaxT, C \in 1..MaxChannels, seed \in 0..MaxSeed :
           window_data = Window(T, C, seed)
    /\ n_points \in 1..MaxNPoints
    /\ ecdf_ret = NotCalled
    /\ BatchIdle /\ DecompIdle /\ NormIdle

Extract ==
    /\ pc = "ready"
    /\ ecdf_ret' = compute_ecdf_features(window_data, dtype, n_points)
    /\ pc' = "done"
    /\ UNCHANGED <<dtype, window_data, n_points, batchVars, decompVars, normVars>>

Next == Extract

Spec == Init /\ [][Next]_vars

\* The same call on the short windows whose time order is permuted
\* exhaustively; their readings are small in some channels and large in others.
InitPerm ==
    /\ pc = "ready"
    /\ dtype \in DTypes
    /\ \E T \in 1..MaxPermT, C \in 1..MaxChannels, seed \in 0..MaxSeed :
           window_data = LargeWindow(T, C, seed)
    /\ n_points \in 1..MaxPermNPoints
    /\ ecdf_ret = NotCalled
    /\ BatchIdle /\ DecompIdle /\ NormIdle

SpecPerm == InitPerm /\ [][Next]_vars

InitBatch ==
    /\ pc = "ready"
    /\ dtype \in DTypes
    /\ batch_data \in Batches
    /\ batch_ret = NotCalled
    /\ ExtractIdle /\ DecompIdle /\ NormIdle

ExtractBatch ==
    /\ pc = "ready"
    /\ batch_ret' = compute_batch_ecdf_features(batch_data, dtype)
    /\ pc' = "done"
    /\ UNCHANGED <<batch_data, extractVars, decompVars, normVars>>

NextBatch == ExtractBatch

SpecBatch == InitBatch /\ [][NextBatch]_vars

InitDecompose ==
    /\ pc = "ready"
    /\ dtype = "none"
    /\ t_signal \in Signals
    /\ freq1 \in BandEdges
    /\ freq2 \in BandEdges
    /\ sampling_freq \in 1..MaxSamplingFreq
    /\ decomp_ret = DecompNotCalled
    /\ ExtractIdle /\ BatchIdle /\ NormIdle

Decompose ==
    /\ pc = "ready"
    /\ decomp_ret' = components_selection_one_signal(t_signal, freq1, freq2, sampling_freq)
    /\ pc' = "done"
    /\ UNCHANGED <<t_signal, freq1, freq2, sampling_freq, extractVars, batchVars, normVars>>

NextDecompose == Decompose

SpecDecompose == InitDecompose /\ [][NextDecompose]_vars

(* Specification: one Normalizer, constructed and then used in any sequence of
   fit and normalize calls *)

InitNormalizer ==
    /\ pc = "ready"
    /\ dtype = "none"
    /\ NormIdle
    /\ ExtractIdle /\ BatchIdle /\ DecompIdle

\* Normalizer.__init__: stores norm_type, whatever it is.
Construct ==
    /\ pc = "ready"
    /\ norm_type' \in NormTypeArgs
    /\ last_call' = "__init__"
    /\ norm_ret' = Returned(<<>>)
    /\ pc' = "constructed"
    /\ UNCHANGED <<attrs, fitted, df, extractVars, batchVars, decompVars>>

Fit ==
    /\ pc = "constructed"
    /\ \E d \in DataFrames :
          LET r == Normalizer_fit(norm_type, attrs, d)
          IN  /\ attrs' = r.attrs
              /\ norm_ret' = IF r.status = "ok" THEN Returned(<<>>) ELSE Raised(r.status)
              /\ fitted' = (fitted \/ r.status = "ok")
              /\ df' = d
    /\ last_call' = "fit"
    /\ UNCHANGED <<pc, norm_type, extractVars, batchVars, decompVars>>

Normalize ==
    /\ pc = "constructed"
    /\ \E d \in DataFrames :
          /\ norm_ret' = Normalizer_normalize(norm_type, attrs, d)
          /\ df' = d
    /\ last_call' = "normalize"
    /\ UNCHANGED <<pc, norm_type, attrs, fitted, extractVars, batchVars, decompVars>>

NextNormalizer == Construct \/ Fit \/ Normalize

SpecNormalizer == InitNormalizer /\ [][NextNormalizer]_vars

-----------------------------------------------------------------------------
(* Vocabulary of the properties of compute_ecdf_features *)

ExtractDone == pc = "done" /\ ecdf_ret.status = "ok"

WindowSize == Len(window_data)

\* The time series of accelerometer channel c (0..8) of the window: column c of
\* a 9-channel window, column 2c of an 18-channel one.
AccSeries(w, c) == ColumnOf(w, IF Channels(w) = 18 THEN 2 * c ELSE c)

\* The part of row `axis` of a feature block that belongs to sensor i.
Segment(block, axis, i, n) == [j \in 1..(n + 1) |-> block[axis + 1][i * (n + 1) + j]]

\* num/den (den > 0, num >= 0) rounded to the nearest integer, halves to even.
RoundHalfEven(num, den) ==
    LET fl == num \div den
        twice == 2 * (num % den)
    IN  IF twice > den \/ (twice = den /\ fl % 2 = 1) THEN fl + 1 ELSE fl

IsHalfInteger(num, den) == 2 * (num % den) = den

IsSortedAscending(s) == \A j \in 1..(Len(s) - 1) : s[j] <= s[j + 1]

SameBag(s, t) ==
    /\ Len(s) = Len(t)
    /\ \A v \in {s[j] : j \in 1..Len(s)} \cup {t[j] : j \in 1..Len(t)} :
           Cardinality({j \in 1..Len(s) : s[j] = v}) = Cardinality({j \in 1..Len(t) : t[j] = v})

\* The ascending rearrangement of a series, characterised rather than computed.
AscendingOf(series) ==
    CHOOSE s \in {np_sort(series)} : IsSortedAscending(s) /\ SameBag(s, series)

BlockShapeOk(block, n) ==
    /\ Len(block) = 3
    /\ \A a \in 1..3 : Len(block[a]) = 3 * (n + 1)

-----------------------------------------------------------------------------
(* C1 *)

-----------------------------------------------------------------------------
(* C2 *)

\* C2: a window whose channel count is neither 9 nor 18 makes the call fail with
\* the unsupported-channel-count error (ValueError) and return no block; a window
\* with 9 or 18 channels does not raise it.
C2_ChannelCountValidated ==
    pc = "done" =>
        /\ Channels(window_data) \notin {9, 18} =>
              ecdf_ret.status = "ValueError" /\ ecdf_ret.value = <<>>
        /\ Channels(window_data) \in {9, 18} => ecdf_ret.status # "ValueError"

C2_Witness ==
    /\ pc = "done"
    /\ Channels(window_data) = 10
    /\ ecdf_ret.status = "ValueError"

-----------------------------------------------------------------------------
(* C7 *)

\* The 9-channel window made of the channels at indices 0, 2, ..., 16.
EvenProjection(w) == [t \in 1..Len(w) |-> [j \in 1..9 |-> w[t][2 * j - 1]]]

\* The window with every odd-indexed channel replaced by the constant v.
OddChannelsSetTo(w, v) ==
    [t \in 1..Len(w) |-> [c \in 1..Len(w[t]) |-> IF c % 2 = 0 THEN v ELSE w[t][c]]]

\* C7: for an 18-channel window the call returns the block of the 9-channel
\* window made of its even-indexed channels, and the odd-indexed channels do
\* not influence it.
C7_EvenProjection ==
    (pc = "done" /\ Channels(window_data) = 18) =>
        /\ ecdf_ret.status = "ok"
        /\ ecdf_ret = compute_ecdf_features(EvenProjection(window_data), dtype, n_points)
        /\ \A v \in {-7, 7} :
              ecdf_ret = compute_ecdf_features(OddChannelsSetTo(window_data, v), dtype, n_points)

\* An 18-channel window whose odd-indexed channels differ from their even neighbours.
C7_Witness ==
    /\ ExtractDone
    /\ Channels(window_data) = 18
    /\ WindowSize >= 2
    /\ \E j \in 1..9 : ColumnOf(window_data, 2 * j - 1) # ColumnOf(window_data, 2 * j - 2)

-----------------------------------------------------------------------------
(* C10 *)

MinOf(s) == CHOOSE x \in {s[j] : j \in 1..Len(s)} : \A j \in 1..Len(s) : x <= s[j]
MaxOf(s) == CHOOSE x \in {s[j] : j \in 1..Len(s)} : \A j \in 1..Len(s) : x >= s[j]

\* C10: for n_points >= 2 every sampling index lies in 0..T-1 and the indices
\* are non-decreasing in k; in every channel segment the sampled values are
\* non-decreasing, the first is the channel minimum and the last its maximum.
C10_SamplesOrdered ==
    (ExtractDone /\ n_points >= 2) =>
        /\ \A k \in 0..(n_points - 1) :
              LET idx == linspace_around(k, WindowSize - 1, n_points)
              IN  /\ idx \in 0..(WindowSize - 1)
                  /\ k > 0 => linspace_around(k - 1, WindowSize - 1, n_points) <= idx
        /\ \A a \in 0..2, i \in 0..2 :
              LET series == AccSeries(window_data, a + 3 * i)
                  seg == Segment(ecdf_ret.value, a, i, n_points)
              IN  /\ \A k \in 1..(n_points - 1) :
                        seg[k][2] = 1 /\ seg[k + 1][2] = 1 /\ seg[k][1] <= seg[k + 1][1]
                  /\ seg[1] = Rat(MinOf(series), 1)
                  /\ seg[n_points] = Rat(MaxOf(series), 1)

\* A block for a window longer than n_points whose channels are not constant.
C10_Witness ==
    /\ ExtractDone
    /\ n_points >= 2
    /\ WindowSize > n_points
    /\ \E c \in 0..8 : MinOf(AccSeries(window_data, c)) # MaxOf(AccSeries(window_data, c))

-----------------------------------------------------------------------------
(* C9 *)

\* The permutations of 1..T, for every window length of the permutation check.
AllTimeOrders ==
    [T \in 1..MaxPermT |->
        {q : q \in {p \in [1..T -> 1..T] : \A x, y \in 1..T : p[x] = p[y] => x = y}}]

TimeOrders(T) == AllTimeOrders[T]

\* The window with the samples of raw channel c (from 0) reordered in time by p.
PermuteChannel(w, c, p) ==
    [t \in 1..Len(w) |-> [ch \in 1..Len(w[t]) |-> IF ch = c + 1 THEN w[p[t]][ch] ELSE w[t][ch]]]

RawChannelOf(w, c) == IF Channels(w) = 18 THEN 2 * c ELSE c

\* C9 as stated: permuting the time order of one channel's samples leaves
\* that channel's feature segment (its n_points sampled values and its mean)
\* unchanged.
C9_PermutationInvariant ==
    ExtractDone =>
        \A c \in 0..8 : \A p \in TimeOrders(WindowSize) :
            LET permuted == compute_ecdf_features(
                                PermuteChannel(window_data, RawChannelOf(window_data, c), p),
                                dtype, n_points)
            IN  /\ permuted.status = "ok"
                /\ Segment(permuted.value, c % 3, c \div 3, n_points)
                       = Segment(ecdf_ret.value, c % 3, c \div 3, n_points)

\* The absolute values of the samples sum to less than 2^bits for the
\* significant bits of the array's type, so that every sum of some of the
\* samples is an integer the type holds exactly.
ExactlySummable(series, dt) ==
    LET total == SumSeq([j \in 1..Len(series) |-> Abs(series[j])])
    IN  total = 0 \/ FloorLog2(total, 1) < mantissa_bits(dt)

\* C9 amended: permuting the time order of one channel's samples leaves that
\* channel's n_points sampled values unchanged, and leaves its mean unchanged
\* when the sums np.mean forms are exact, as they are for integer samples whose
\* absolute values sum to less than 2^24 (float32 array) or 2^53 (float64).
C9_PermutationInvariantSamples ==
    ExtractDone =>
        \A c \in 0..8 : \A p \in TimeOrders(WindowSize) :
            LET permuted == compute_ecdf_features(
                                PermuteChannel(window_data, RawChannelOf(window_data, c), p),
                                dtype, n_points)
                permuted_seg == Segment(permuted.value, c % 3, c \div 3, n_points)
                seg == Segment(ecdf_ret.value, c % 3, c \div 3, n_points)
            IN  /\ permuted.status = "ok"
                /\ SubSeq(permuted_seg, 1, n_points) = SubSeq(seg, 1, n_points)
                /\ ExactlySummable(AccSeries(window_data, c), dtype) =>
                       permuted_seg[n_points + 1] = seg[n_points + 1]

\* A block for a float32 window in which one channel is exactly summable, not
\* already ascending and changed by a permutation, and another channel holds
\* samples of magnitude 2^24 and is not exactly summable.
C9_Witness ==
    /\ ExtractDone
    /\ n_points >= 2
    /\ dtype = "float32"
    /\ \E c \in 0..8 : \E p \in TimeOrders(WindowSize) :
          /\ ExactlySummable(AccSeries(window_data, c), dtype)
          /\ ~IsSortedAscending(AccSeries(window_data, c))
          /\ AccSeries(PermuteChannel(window_data, RawChannelOf(window_data, c), p), c)
                 # AccSeries(window_data, c)
    /\ \E c \in 0..8 : ~ExactlySummable(AccSeries(window_data, c), dtype)

-----------------------------------------------------------------------------
(* C6 *)

BatchValid == \A i \in 1..Len(batch_data) : Channels(batch_data[i]) \in {9, 18}

\* C6: for a batch of N >= 0 windows that each pass the channel check, the call
\* returns N blocks of shape (3, 78) in input order, block i is the block
\* compute_ecdf_features returns for window i alone, and replacing any other
\* window of the batch leaves block i unchanged.
C6_BatchBlockwise ==
    (pc = "done" /\ BatchValid) =>
        /\ batch_ret.status = "ok"
        /\ Len(batch_ret.value) = Len(batch_data)
        /\ \A i \in 1..Len(batch_data) :
              /\ BlockShapeOk(batch_ret.value[i], 25)
              /\ Len(batch_ret.value[i][1]) = 78
              /\ batch_ret.value[i] = compute_ecdf_features(batch_data[i], dtype, 25).value
        /\ \A j \in 1..Len(batch_data) : \A seed \in {0, MaxSeed} :
              LET other == Window(Len(batch_data[j]), Channels(batch_data[j]), seed)
                  changed == compute_batch_ecdf_features([batch_data EXCEPT ![j] = other], dtype)
              IN  \A i \in 1..Len(batch_data) :
                      i # j => changed.value[i] = batch_ret.value[i]

\* A batch of at least two different valid windows was processed.
C6_Witness ==
    /\ pc = "done"
    /\ Len(batch_data) >= 2
    /\ BatchValid
    /\ batch_data[1] # batch_data[2]
    /\ batch_ret.status = "ok"
    /\ batch_ret.value[1] # batch_ret.value[2]

-----------------------------------------------------------------------------
(* C3 *)

Kept(f, i) == f[i] # Float0

KeptInExactlyOne(i) ==
    /\ Cardinality({name \in {"DC", "body", "noise"} :
          \/ name = "DC" /\ Kept(decomp_ret.f_DC_signal, i)
          \/ name = "body" /\ Kept(decomp_ret.f_body_signal, i)
          \/ name = "noise" /\ Kept(decomp_ret.f_noise_signal, i)}) = 1
    /\ \A f \in {decomp_ret.f_DC_signal, decomp_ret.f_body_signal, decomp_ret.f_noise_signal} :
          Kept(f, i) => f[i] = fft(t_signal)[i]

\* C3 as stated: for every pair of band edges freq1, freq2, every frequency bin
\* is kept in exactly one of the DC, body and noise masked spectra and zeroed in
\* the other two.
C3_PartitionAnyEdges ==
    pc = "done" => \A i \in 1..Len(t_signal) : KeptInExactlyOne(i)

\* C3 amended: for every pair of band edges with freq1 <= freq2, every
\* frequency bin is kept in exactly one of the DC, body and noise masked spectra
\* and zeroed in the other two.
C3_PartitionOrderedEdges ==
    (pc = "done" /\ Float64Cmp(freq1, freq2) <= 0) => \A i \in 1..Len(t_signal) : KeptInExactlyOne(i)

\* A decomposition with freq1 < freq2 in which each of the three masks keeps a bin.
C3_Witness ==
    /\ pc = "done"
    /\ Float64Cmp(freq1, freq2) < 0
    /\ \E i, j, k \in 1..Len(t_signal) :
          /\ Kept(decomp_ret.f_DC_signal, i)
          /\ Kept(decomp_ret.f_body_signal, j)
          /\ Kept(decomp_ret.f_noise_signal, k)

-----------------------------------------------------------------------------
(* C4 *)

\* C4: in standardization or minmax mode a normalize call made before any fit
\* has completed ends in an error and returns no data, so that normalize
\* returns data only after a fit; in per_sample_std or per_sample_minmax mode
\* normalize returns data whether or not fit was called.
C4_NormalizeNeedsFit ==
    last_call = "normalize" =>
        /\ norm_type \in {"standardization", "minmax"} =>
              /\ ~fitted => norm_ret.status = "AttributeError" /\ norm_ret.value = <<>>
              /\ norm_ret.status = "ok" => fitted
              /\ fitted => norm_ret.status = "ok" /\ Len(norm_ret.value) = NumRows(df)
        /\ norm_type \in {"per_sample_std", "per_sample_minmax"} =>
              norm_ret.status = "ok" /\ Len(norm_ret.value) = NumRows(df)

\* normalize was called on a never-fitted Normalizer in a whole-dataset mode.
C4_Witness ==
    /\ last_call = "normalize"
    /\ norm_type = "minmax"
    /\ ~fitted
    /\ norm_ret.status = "AttributeError"

-----------------------------------------------------------------------------
(* C5 *)

\* C5: for a norm_type that is none of the four modes, the mode is rejected at
\* construction or at fit: fit fails with the unknown-method error (NameError),
\* normalize fails with it too, no statistics are stored and no data returned.
C5_UnknownModeRejected ==
    (pc = "constructed" /\ norm_type \notin NormTypes) =>
        /\ attrs = <<>>
        /\ ~fitted
        /\ last_call = "fit" => norm_ret.status = "NameError" /\ norm_ret.value = <<>>
        /\ last_call = "normalize" => norm_ret.status = "NameError" /\ norm_ret.value = <<>>

\* fit was called on a Normalizer constructed with an unknown norm_type.
C5_Witness ==
    /\ norm_type = "zscore"
    /\ last_call = "fit"
    /\ norm_ret.status = "NameError"

-----------------------------------------------------------------------------
(* C8 *)

IsConstantColumn(d, c) == \A r \in AllRows(d) : d.rows[r][c] = d.rows[1][c]

\* The Normalizer holds the statistics of a fit on d.
FittedOn(d) == fitted /\ attrs = Normalizer_fit("standardization", <<>>, d).attrs

\* C8: in standardization mode, fit on a dataset of one or more rows followed
\* by normalize of the same dataset yields 0 in every entry of a column that
\* holds one value in every row.
C8_ConstantColumnZero ==
    (last_call = "normalize" /\ norm_type = "standardization" /\ FittedOn(df)) =>
        /\ norm_ret.status = "ok"
        /\ \A c \in ColumnSet(df) :
              IsConstantColumn(df, c) => \A r \in AllRows(df) : norm_ret.value[r][c] = Zero

====
